---- MODULE Spec2Model ----
(***************************************************************************)
(* A model of the LoremIpsum generator of src/main.ts.                     *)
(*                                                                         *)
(* Text is a sequence of one-character strings, so that splitting,         *)
(* slicing, capitalising, measuring and replacing are computed on the      *)
(* characters as the code computes them.  Math.random() is a free choice:  *)
(* Math.floor(Math.random() * n) is any index of 0 .. n-1, a comparison    *)
(* with Math.random() is either outcome it can have.                       *)
(***************************************************************************)
EXTENDS Integers, Sequences, FiniteSets, TLC

(***************************************************************************)
(* Bounds of the model.                                                    *)
(***************************************************************************)
\* longest array of partials handed to mergePartials in MergeSpec
MaxPartials == 3

(***************************************************************************)
(* Characters and strings.                                                 *)
(***************************************************************************)
Lower == <<"a","b","c","d","e","f","g","h","i","j","k","l","m",
           "n","o","p","q","r","s","t","u","v","w","x","y","z">>
Upper == <<"A","B","C","D","E","F","G","H","I","J","K","L","M",
           "N","O","P","Q","R","S","T","U","V","W","X","Y","Z">>
Digits == <<"0","1","2","3","4","5","6","7","8","9">>

\* the JavaScript value undefined
Undefined == "undefined"

IndexIn(c, alphabet) ==
  IF \E i \in 1..Len(alphabet) : alphabet[i] = c
  THEN CHOOSE i \in 1..Len(alphabet) : alphabet[i] = c
  ELSE 0

\* String.prototype.toUpperCase on one character
toUpperCase(c) == IF IndexIn(c, Lower) > 0 THEN Upper[IndexIn(c, Lower)] ELSE c

\* str.charAt(0).toUpperCase() + str.slice(1)
capitalize(str) ==
  IF str = <<>> THEN <<>> ELSE <<toUpperCase(Head(str))>> \o Tail(str)

\* Array.prototype.join
RECURSIVE join(_, _)
join(arr, sep) ==
  IF arr = <<>> THEN <<>>
  ELSE IF Len(arr) = 1 THEN arr[1]
  ELSE arr[1] \o sep \o join(Tail(arr), sep)

\* String.prototype.split on a one-character separator
RECURSIVE SplitFrom(_, _, _, _)
SplitFrom(str, sep, i, piece) ==
  IF i > Len(str) THEN <<piece>>
  ELSE IF str[i] = sep THEN <<piece>> \o SplitFrom(str, sep, i + 1, <<>>)
  ELSE SplitFrom(str, sep, i + 1, Append(piece, str[i]))

split(str, sep) == SplitFrom(str, sep, 1, <<>>)

\* whether pat occurs in str at position i
MatchesAt(str, pat, i) ==
  /\ i + Len(pat) - 1 <= Len(str)
  /\ \A k \in 1..Len(pat) : str[i + k - 1] = pat[k]

\* str.replace(new RegExp(pattern, "g"), replacement), for a pattern of
\* ordinary characters: the matches are found left to right, not overlapping
RECURSIVE ReplaceFrom(_, _, _, _)
ReplaceFrom(str, pat, rep, i) ==
  IF i > Len(str) THEN <<>>
  ELSE IF pat # <<>> /\ MatchesAt(str, pat, i)
       THEN rep \o ReplaceFrom(str, pat, rep, i + Len(pat))
       ELSE <<str[i]>> \o ReplaceFrom(str, pat, rep, i + 1)

\* the number of non-overlapping occurrences of pat in str
RECURSIVE CountFrom(_, _, _)
CountFrom(str, pat, i) ==
  IF i > Len(str) THEN 0
  ELSE IF MatchesAt(str, pat, i) THEN 1 + CountFrom(str, pat, i + Len(pat))
  ELSE CountFrom(str, pat, i + 1)

Occurrences(str, pat) == CountFrom(str, pat, 1)

SeqRange(s) == {s[i] : i \in 1..Len(s)}

(***************************************************************************)
(* Numbers: Number(value) of a form field.  A number is n/d, or NaN.       *)
(***************************************************************************)
NaN == [nan |-> TRUE, n |-> 0, d |-> 1]
Num(n, d) == [nan |-> FALSE, n |-> n, d |-> d]

RECURSIVE DigitsValue(_)
DigitsValue(ds) ==
  IF ds = <<>> THEN 0
  ELSE 10 * DigitsValue(SubSeq(ds, 1, Len(ds) - 1)) + (IndexIn(ds[Len(ds)], Digits) - 1)

RECURSIVE Pow10(_)
Pow10(k) == IF k = 0 THEN 1 ELSE 10 * Pow10(k - 1)

AllDigits(ds) == \A i \in 1..Len(ds) : IndexIn(ds[i], Digits) > 0

\* an unsigned decimal literal: digits, optionally a point and more digits
UnsignedNumber(str) ==
  LET parts == split(str, ".")
      int   == parts[1]
      frac  == IF Len(parts) > 1 THEN parts[2] ELSE <<>>
  IN IF \/ Len(parts) > 2
        \/ ~AllDigits(int) \/ ~AllDigits(frac)
        \/ (int = <<>> /\ frac = <<>>)
     THEN NaN
     ELSE Num(DigitsValue(int \o frac), Pow10(Len(frac)))

\* Number(str): the empty string is 0, a signed decimal literal is its value,
\* anything else is NaN
Number(str) ==
  IF str = <<>> THEN Num(0, 1)
  ELSE IF Head(str) = "-"
       THEN LET v == UnsignedNumber(Tail(str))
            IN IF v.nan THEN NaN ELSE Num(0 - v.n, v.d)
  ELSE IF Head(str) = "+" THEN UnsignedNumber(Tail(str))
  ELSE UnsignedNumber(str)

\* a number is falsy when it is 0 or NaN
Truthy(v) == ~v.nan /\ v.n # 0

\* Number(value) || 1
NumberOrOne(str) == IF Truthy(Number(str)) THEN Number(str) ELSE Num(1, 1)

\* the length Array.from({ length: v }) gives: ToLength(v)
ToLength(v) == IF v.nan \/ v.n <= 0 THEN 0 ELSE v.n \div v.d

IsInteger(v) == ~v.nan /\ v.n % v.d = 0

(***************************************************************************)
(* The template store: src/json/data.json and src/json/ligatures.json are  *)
(* data files read at startup.  The store below has the shape the code     *)
(* reads: sentence structures, flat word pools, gendered types with their  *)
(* numbers and sub-components, and a section type with options.  A token   *)
(* that starts with "*" is optional, one that starts with "?" names a      *)
(* section.                                                                *)
(***************************************************************************)
s_le == <<"l","e">>
s_coeur == <<"c","o","e","u","r">>
s_verbe == <<"v","e","r","b","e">>
s_adverbe == <<"a","d","v","e","r","b","e">>
s_vide == <<"v","i","d","e">>
s_times == <<"t","i","m","e","s">>
s_places == <<"p","l","a","c","e","s">>
s_persons == <<"p","e","r","s","o","n","s">>
s_roles == <<"r","o","l","e","s">>
s_protagonists == <<"p","r","o","t","a","g","o","n","i","s","t","s">>
s_va == <<"v","a">>
s_court == <<"c","o","u","r","t">>
s_tire == <<"t","i","r","e">>
s_dort == <<"d","o","r","t">>
s_boit == <<"b","o","i","t">>
s_part == <<"p","a","r","t">>
s_vite == <<"v","i","t","e">>
s_loin == <<"l","o","i","n">>
s_high_noon == <<"h","i","g","h"," ","n","o","o","n">>
s_saloon == <<"s","a","l","o","o","n">>
s_prairie == <<"p","r","a","i","r","i","e">>
s_boeuf == <<"b","o","e","u","f">>
s_juge == <<"j","u","g","e">>
s_de_paix == <<"d","e"," ","p","a","i","x">>
s_les == <<"l","e","s">>
s_des == <<"d","e","s">>
s_bandits == <<"b","a","n","d","i","t","s">>
s_gus == <<"g","u","s">>
s_juges == <<"j","u","g","e","s">>
s_et == <<" ","e","t"," ">>
s_star == <<"*">>
s_question == <<"?">>
s_space == <<" ">>

\* data.structures
structures ==
  << <<s_le, s_coeur>>,
     <<s_question \o s_protagonists, s_verbe, s_question \o s_places>>,
     <<s_star \o s_adverbe, s_question \o s_places, s_verbe>> >>

\* one sub-component of a gendered type: required is a probability in percent
Component(required, values) == [required |-> required, values |-> values]
ComponentWithDefault(required, values, default) ==
  [required |-> required, values |-> values, default |-> default]

\* data[name], for every name the store defines
data ==
  [ name \in { s_verbe, s_adverbe, s_vide, s_times, s_places, s_persons,
               s_roles, s_protagonists } |->
    CASE name = s_verbe -> [list |-> <<s_va, s_court, s_tire, s_dort, s_boit, s_part>>]
      [] name = s_adverbe -> [list |-> <<s_vite, s_loin>>]
      [] name = s_vide -> [list |-> <<>>]
      [] name = s_times ->
           [ m |-> [single |-> [item |-> Component(100, <<s_high_noon>>)]],
             f |-> [single |-> [item |-> Component(100, <<s_high_noon>>)]],
             structure |-> <<"item">> ]
      [] name = s_places ->
           [ m |-> [ single |-> [item |-> Component(100, <<s_saloon>>)],
                     plural |-> [item |-> ComponentWithDefault(50, <<s_saloon, s_prairie>>, s_les)] ],
             f |-> [ single |-> [item |-> Component(100, <<s_saloon>>)],
                     plural |-> [item |-> ComponentWithDefault(50, <<s_prairie>>, s_les)] ],
             structure |-> <<"item">> ]
      [] name = s_persons ->
           [ m |-> [ single |-> [item |-> Component(100, <<s_boeuf>>)],
                     plural |-> [item |-> ComponentWithDefault(50, <<s_bandits, s_gus>>, s_des)] ],
             f |-> [ single |-> [item |-> Component(100, <<s_boeuf>>)],
                     plural |-> [item |-> Component(100, <<s_bandits, s_bandits, s_gus>>)] ],
             structure |-> <<"item">> ]
      [] name = s_roles ->
           [ m |-> [ single |-> [ item |-> Component(100, <<s_juge>>),
                                  specialisation |-> Component(50, <<s_de_paix>>) ],
                     plural |-> [ item |-> Component(100, <<s_juges, s_gus>>),
                                  specialisation |-> Component(50, <<s_de_paix>>) ] ],
             f |-> [ single |-> [ item |-> Component(100, <<s_juge>>),
                                  specialisation |-> Component(50, <<s_de_paix>>) ] ],
             structure |-> <<"item", "specialisation">> ]
      [] name = s_protagonists ->
           [ options |-> << [typeof |-> "string", value |-> s_persons],
                            [typeof |-> "object", value |-> <<s_persons, s_roles>>] >>,
             sep |-> <<s_et>> ] ]

\* a flat word pool is an array; any other entry of the store is an object
IsArray(entry) == "list" \in DOMAIN entry

\* src/json/ligatures.json: ordered [pattern, replacement] pairs.  The two
\* ligature glyphs are single characters, written "[oe]" and "[ae]" here.
ligatures == << <<<<"o","e">>, <<"[oe]">>>>, <<<<"a","e">>, <<"[ae]">>>> >>

(***************************************************************************)
(* Random draws and the two repeat-avoidance mechanisms.                   *)
(***************************************************************************)
\* the text value undefined (an array element or property that is not there)
UndefinedText == <<Undefined>>

\* the capacity of a category's memory of recent indices
MemoryCap == 4

\* the values randomFromArray(arr) can return
randomFromArray(arr) == IF arr = <<>> THEN {UndefinedText} ELSE SeqRange(arr)

\* the values random(min, max) can return
random(min, max) == min..max

\* Remember with the oldest index dropped one push too early
\* (if (used.length >= 4) used.shift()): a memory of 3 indices
RememberThree(used, index) ==
  LET pushed == Append(used, index)
  IN IF Len(pushed) >= 4 THEN Tail(pushed) ELSE pushed

\* used.push(index); if (used.length > 4) used.shift()
Remember(used, index) ==
  LET pushed == Append(used, index)
  IN IF Len(pushed) > MemoryCap THEN Tail(pushed) ELSE pushed

\* The results getRandomWord(type) can have with the memory usedWords.  The
\* index is Math.floor(Math.random() * list.length): 0 for an empty list.  An
\* index that is in the memory makes the function call itself again, so the
\* call returns with an index that is not in the memory; when every index it
\* can draw is in the memory the recursion never returns and the call stack
\* overflows (RangeError).
getRandomWord(type, usedWords) ==
  LET list    == data[type].list
      indices == IF Len(list) = 0 THEN {0} ELSE 0..(Len(list) - 1)
      used    == usedWords[type]
      fresh   == {index \in indices : index \notin SeqRange(used)}
  IN IF fresh = {}
     THEN {[status |-> "RangeError", index |-> 0, value |-> UndefinedText,
            usedWords |-> usedWords]}
     ELSE {[status |-> "ok", index |-> index,
            value |-> IF index < Len(list) THEN list[index + 1] ELSE UndefinedText,
            usedWords |-> [usedWords EXCEPT ![type] = Remember(used, index)]]
           : index \in fresh}

\* getRandomNoRepeat without the test !this.usedDictionary.has(word): the
\* first draw is returned whenever it is longer than 3 characters
getRandomNoRepeatUnchecked(arr, usedDictionary) ==
  UNION { IF word = UndefinedText
          THEN {[status |-> "TypeError", word |-> UndefinedText, path |-> "first",
                 usedDictionary |-> usedDictionary]}
          ELSE IF Len(word) > 3
          THEN {[status |-> "ok", word |-> word, path |-> "first",
                 usedDictionary |-> usedDictionary \cup {word}]}
          ELSE {[status |-> "ok", word |-> again, path |-> "fallback",
                 usedDictionary |-> usedDictionary]
                : again \in randomFromArray(arr)}
        : word \in randomFromArray(arr) }

\* The results getRandomNoRepeat(arr) can have with the dictionary
\* usedDictionary: the first draw is returned and recorded when it is new and
\* longer than 3 characters, otherwise a second draw is returned as it is.
getRandomNoRepeat(arr, usedDictionary) ==
  UNION { IF word = UndefinedText
          THEN {[status |-> "TypeError", word |-> UndefinedText, path |-> "first",
                 usedDictionary |-> usedDictionary]}
          ELSE IF word \notin usedDictionary /\ Len(word) > 3
          THEN {[status |-> "ok", word |-> word, path |-> "first",
                 usedDictionary |-> usedDictionary \cup {word}]}
          ELSE {[status |-> "ok", word |-> again, path |-> "fallback",
                 usedDictionary |-> usedDictionary]
                : again \in randomFromArray(arr)}
        : word \in randomFromArray(arr) }

(***************************************************************************)
(* Sections: getPartial, mergePartials, getSection.                        *)
(***************************************************************************)
PartialResult(type, text, gender, number) ==
  [type |-> type, text |-> text, gender |-> gender, number |-> number]

NoPartial == PartialResult(<<>>, <<>>, Undefined, Undefined)

\* the texts the sub-components structure[i..] of obj can resolve to, with the
\* dictionary threaded through the draws from left to right; objs is <<obj>>,
\* or <<>> when obj is undefined
RECURSIVE componentTexts(_, _, _, _)
componentTexts(objs, structure, i, usedDictionary) ==
  IF i > Len(structure)
  THEN {[status |-> "ok", texts |-> <<>>, usedDictionary |-> usedDictionary]}
  ELSE IF objs = <<>> \/ structure[i] \notin DOMAIN objs[1]
  THEN {[status |-> "TypeError", texts |-> <<>>, usedDictionary |-> usedDictionary]}
  ELSE
    LET c == objs[1][structure[i]]
        \* obj[category].required >= Math.random()
        drawn == IF c.required >= 0 THEN getRandomNoRepeat(c.values, usedDictionary) ELSE {}
        \* obj[category].default ?? ""
        other == IF c.required < 100
                 THEN {[status |-> "ok",
                        word |-> IF "default" \in DOMAIN c THEN c.default ELSE <<>>,
                        path |-> "default", usedDictionary |-> usedDictionary]}
                 ELSE {}
    IN UNION { IF h.status # "ok"
               THEN {[status |-> h.status, texts |-> <<>>,
                      usedDictionary |-> h.usedDictionary]}
               ELSE {[status |-> rest.status, texts |-> <<h.word>> \o rest.texts,
                      usedDictionary |-> rest.usedDictionary]
                     : rest \in componentTexts(objs, structure, i + 1, h.usedDictionary)}
             : h \in drawn \cup other }

\* .filter(Boolean) on an array of texts
RECURSIVE filterBoolean(_)
filterBoolean(texts) ==
  IF texts = <<>> THEN <<>>
  ELSE IF Head(texts) = <<>> \/ Head(texts) = UndefinedText THEN filterBoolean(Tail(texts))
  ELSE <<Head(texts)>> \o filterBoolean(Tail(texts))

\* getPartial(type, preset) once gender and number are chosen
partialOf(type, gender, number, usedDictionary) ==
  LET typeObj == data[type]
      objs == IF number \in DOMAIN typeObj[gender] THEN <<typeObj[gender][number]>> ELSE <<>>
  IN { [status |-> r.status, gender |-> gender, number |-> number,
        usedDictionary |-> r.usedDictionary,
        partial |-> IF r.status = "ok"
                    THEN PartialResult(type, join(filterBoolean(r.texts), s_space),
                                       gender, number)
                    ELSE NoPartial]
       : r \in componentTexts(objs, typeObj.structure, 1, usedDictionary) }

\* The results getPartial(type, preset) can have.  preset.gender ?? ... and
\* preset.number ?? ... keep every preset value that is not undefined, the
\* empty string included; Object.keys(typeObj[gender]) throws a TypeError when
\* typeObj has no property gender.
getPartial(type, preset, usedDictionary) ==
  LET genders == IF preset.gender # Undefined THEN {preset.gender} ELSE {"m", "f"}
  IN UNION {
       IF type \notin DOMAIN data \/ gender \notin DOMAIN data[type]
       THEN {[status |-> "TypeError", gender |-> gender, number |-> preset.number,
              usedDictionary |-> usedDictionary, partial |-> NoPartial]}
       ELSE LET numbers == IF preset.number # Undefined THEN {preset.number}
                           ELSE IF DOMAIN data[type][gender] = {} THEN {Undefined}
                           ELSE DOMAIN data[type][gender]
            IN UNION { partialOf(type, gender, number, usedDictionary)
                       : number \in numbers }
     : gender \in genders }

\* the loop of mergePartials from index i on (arr[i - 1] in the code)
RECURSIVE mergeFrom(_, _, _, _)
mergeFrom(base, arr, i, sep) ==
  IF i > Len(arr) THEN {base}
  ELSE UNION { mergeFrom([base EXCEPT
                            !.gender = IF arr[i].gender # base.gender THEN "m" ELSE @,
                            !.text = @ \o s \o arr[i].text],
                         arr, i + 1, sep)
               : s \in randomFromArray(sep) }

\* mergePartials without base.number = "plural", and with the gender of the
\* differing partial taken where the code takes "m"
mergePartialsLastWins(arr, type, typeObj) ==
  LET genders == {arr[i].gender : i \in 1..Len(arr)}
  IN { [base EXCEPT !.type = type,
                    !.gender = IF Cardinality(genders) = 1 THEN @ ELSE arr[Len(arr)].gender]
       : base \in mergeFrom(arr[1], arr, 2, typeObj.sep) }

\* the results mergePartials(arr, type, typeObj) can have
mergePartials(arr, type, typeObj) ==
  { [base EXCEPT !.type = type, !.number = "plural"]
    : base \in mergeFrom(arr[1], arr, 2, typeObj.sep) }

\* selected.map((t) => this.getPartial(t, preset)): the partials of names[i..]
RECURSIVE partialsOf(_, _, _, _)
partialsOf(names, i, preset, usedDictionary) ==
  IF i > Len(names)
  THEN {[status |-> "ok", partials |-> <<>>, calls |-> <<>>,
         usedDictionary |-> usedDictionary]}
  ELSE UNION {
         IF p.status # "ok"
         THEN {[status |-> p.status, partials |-> <<>>,
                calls |-> <<[type |-> names[i], status |-> p.status,
                             gender |-> p.gender, number |-> p.number]>>,
                usedDictionary |-> p.usedDictionary]}
         ELSE {[status |-> rest.status,
                partials |-> <<p.partial>> \o rest.partials,
                calls |-> <<[type |-> names[i], status |-> p.status,
                             gender |-> p.gender, number |-> p.number]>> \o rest.calls,
                usedDictionary |-> rest.usedDictionary]
               : rest \in partialsOf(names, i + 1, preset, p.usedDictionary)}
       : p \in getPartial(names[i], preset, usedDictionary) }

\* The results getSection(originalType, preset) can have: the section, the
\* dictionary after it, and the getPartial calls it made.
getSection(originalType, preset, usedDictionary) ==
  IF originalType \notin DOMAIN data
  THEN {[status |-> "TypeError", section |-> NoPartial, calls |-> <<>>,
         usedDictionary |-> usedDictionary]}
  ELSE
    LET typeObj == data[originalType]
        names(selected) == IF selected.typeof = "string" THEN <<selected.value>>
                           ELSE selected.value
        options == IF "options" \in DOMAIN typeObj THEN SeqRange(typeObj.options)
                   ELSE {[typeof |-> "string", value |-> originalType]}
    IN UNION {
         UNION {
           IF r.status # "ok"
           THEN {[status |-> r.status, section |-> NoPartial, calls |-> r.calls,
                  usedDictionary |-> r.usedDictionary]}
           ELSE IF selected.typeof = "string"
           THEN {[status |-> "ok", section |-> r.partials[1], calls |-> r.calls,
                  usedDictionary |-> r.usedDictionary]}
           ELSE {[status |-> "ok", section |-> merged, calls |-> r.calls,
                  usedDictionary |-> r.usedDictionary]
                 : merged \in mergePartials(r.partials, originalType, typeObj)}
         : r \in partialsOf(names(selected), 1, preset, usedDictionary) }
       : selected \in options }

(***************************************************************************)
(* Sentences, words, ligatures.                                            *)
(***************************************************************************)
\* let protagonist = { gender: "", number: "" }
NoProtagonist == [gender |-> "", number |-> ""]

\* parts.join(" "): an undefined element is joined as the empty string
RECURSIVE definedTexts(_)
definedTexts(parts) ==
  IF parts = <<>> THEN <<>>
  ELSE <<IF Head(parts) = UndefinedText THEN <<>> ELSE Head(parts)>>
       \o definedTexts(Tail(parts))

SentenceResult(status, parts, usedWords, usedDictionary, sections) ==
  [status |-> status,
   text |-> IF status = "ok" THEN capitalize(join(definedTexts(parts), s_space)) ELSE <<>>,
   usedWords |-> usedWords, usedDictionary |-> usedDictionary,
   sections |-> sections]

\* The loop of generateSentence over structure[i..].  sections is the record
\* of the section tokens met so far: for each its position, its type, the
\* preset it was resolved with, how it ended, and the getPartial calls made.
RECURSIVE tokensFrom(_, _, _, _, _, _, _)
tokensFrom(structure, i, parts, protagonist, usedWords, usedDictionary, sections) ==
  IF i > Len(structure)
  THEN {SentenceResult("ok", parts, usedWords, usedDictionary, sections)}
  ELSE
    LET token == structure[i]
        firstChar == IF token = <<>> THEN <<>> ELSE <<Head(token)>>
        \* lines 162-164: a token that names an entry of the store is drawn
        \* from it, any other token is kept as it is
        word(t) ==
          IF t \in DOMAIN data
          THEN UNION {
                 IF w.status # "ok"
                 THEN {SentenceResult(w.status, parts, w.usedWords, usedDictionary, sections)}
                 ELSE tokensFrom(structure, i + 1, Append(parts, w.value), protagonist,
                                 w.usedWords, usedDictionary, sections)
               : w \in getRandomWord(t, usedWords) }
          ELSE tokensFrom(structure, i + 1, Append(parts, t), protagonist,
                          usedWords, usedDictionary, sections)
    IN IF firstChar = s_star
       THEN \* Math.random() >= 1 / 6: the token is skipped, or kept unmarked
            tokensFrom(structure, i + 1, parts, protagonist, usedWords,
                       usedDictionary, sections)
            \cup word(Tail(token))
       ELSE IF firstChar = s_question
       THEN UNION {
              LET entry == [at |-> i, type |-> Tail(token), preset |-> protagonist,
                            status |-> r.status, gender |-> r.section.gender,
                            number |-> r.section.number, calls |-> r.calls]
              IN IF r.status # "ok"
                 THEN {SentenceResult(r.status, parts, usedWords, r.usedDictionary,
                                      Append(sections, entry))}
                 ELSE tokensFrom(structure, i + 1, Append(parts, r.section.text),
                                 IF Tail(token) = s_protagonists
                                 THEN [gender |-> r.section.gender,
                                       number |-> r.section.number]
                                 ELSE protagonist,
                                 usedWords, r.usedDictionary, Append(sections, entry))
            : r \in getSection(Tail(token), protagonist, usedDictionary) }
       ELSE word(token)

\* The results generateSentence() can have: the structure drawn, how the call
\* ended ("ok", or the error thrown), its text, and the two trackers after it.
generateSentence(usedWords, usedDictionary) ==
  UNION { { [structure |-> k, status |-> r.status, text |-> r.text,
             usedWords |-> r.usedWords, usedDictionary |-> r.usedDictionary,
             sections |-> r.sections]
            : r \in tokensFrom(structures[k], 1, <<>>, NoProtagonist,
                               usedWords, usedDictionary, <<>>) }
          : k \in 1..Len(structures) }

\* this.wordsArr, built by the constructor
wordsArr ==
  data[s_times].m.single.item.values
  \o data[s_places].m.single.item.values
  \o data[s_places].f.single.item.values
  \o data[s_persons].m.single.item.values
  \o data[s_persons].f.single.item.values
  \o data[s_roles].m.single.item.values
  \o data[s_roles].f.single.item.values
  \o data[s_roles].m.single.specialisation.values
  \o data[s_roles].f.single.specialisation.values

\* the values randomWordFromPool() can return
randomWordFromPool ==
  UNION { randomFromArray(split(item, " ")) : item \in randomFromArray(wordsArr) }

\* ligatures.reduce(...) from rule i on
RECURSIVE ligaturesFrom(_, _)
ligaturesFrom(acc, i) ==
  IF i > Len(ligatures) THEN acc
  ELSE ligaturesFrom(ReplaceFrom(acc, ligatures[i][1], ligatures[i][2], 1), i + 1)

fixLigatures(str) == ligaturesFrom(str, 1)

\* text.split(/\s+/).length: one more than the number of runs of spaces
RECURSIVE spaceRuns(_, _)
spaceRuns(text, i) ==
  IF i > Len(text) THEN 0
  ELSE (IF text[i] = " " /\ (i = 1 \/ text[i - 1] # " ") THEN 1 ELSE 0)
       + spaceRuns(text, i + 1)

\* text.replace(/[^A-Za-z]/g, "").length
RECURSIVE letters(_, _)
letters(text, i) ==
  IF i > Len(text) THEN 0
  ELSE (IF IndexIn(text[i], Lower) > 0 \/ IndexIn(text[i], Upper) > 0 THEN 1 ELSE 0)
       + letters(text, i + 1)

(***************************************************************************)
(* The state of a LoremIpsum object and of its page.                       *)
(***************************************************************************)
t_p_open == <<"<","p",">">>
t_p_close == <<"<","/","p",">">>
t_li_open == <<"<","l","i",">">>
t_li_close == <<"<","/","l","i",">">>
t_article_open == <<"<","a","r","t","i","c","l","e"," ","c","l","a","s","s","=","\"","a","r","t","i","c","l","e","\"",">">>
t_article_close == <<"<","/","a","r","t","i","c","l","e",">">>
v_0 == <<"0">>
v_1 == <<"1">>
v_2 == <<"2">>
v_minus1 == <<"-","1">>
v_half == <<"0",".","5">>
v_abc == <<"a","b","c">>

\* the values the user can give the field dom.nbr
NbrValues == {v_0, v_1, v_2, v_minus1, v_half, v_abc}

\* the values of the radio buttons dom.type
IpsumTypes == {"Paragraphs", "Sentences", "Words", "Lists"}

\* the flat word pools of the store: the names getRandomWord is called with
Categories == {name \in DOMAIN data : IsArray(data[name])}

VARIABLES
  nbrValue,        \* dom.nbr.value
  settings,        \* this.settings: nbr and type
  usedWords,       \* this.usedWords: category -> its recent indices
  usedDictionary,  \* this.usedDictionary
  run,             \* "none" before init(); "running" inside setup(); then how
                   \* the last setup() ended: "done", or the error it threw
  units,           \* setup(): the array Array.from has filled so far
  paragraph,       \* generateParagraph(): sentencesNbr and the sentences so far
  content,         \* dom.content.innerHTML
  footer,          \* dom.footer.innerHTML: the numbers of the resume
  lastSentence,    \* the last generateSentence() call: its structure, how it
                   \* ended, the section tokens it resolved
  drawn,           \* the last getRandomWord() call made on its own
  accepted,        \* category -> the last MemoryCap + 1 indices accepted in this run
  emitted,         \* the last getRandomNoRepeat() call made on its own, and the
                   \* words returned before it in this run
  merged           \* the last mergePartials() call made on its own

vars == <<nbrValue, settings, usedWords, usedDictionary, run, units, paragraph,
          content, footer, lastSentence, drawn, accepted, emitted, merged>>

runVars == <<nbrValue, settings, units, paragraph, content, footer, lastSentence>>
callVars == <<drawn, accepted, emitted, merged>>

NoParagraph == [active |-> FALSE, sentencesNbr |-> 0, sentences |-> <<>>]
NoSentence == [structure |-> 0, status |-> "none", sections |-> <<>>]
NoDraw == [type |-> <<>>, status |-> "none", index |-> 0, value |-> UndefinedText]
NoEmission == [status |-> "none", word |-> <<>>, path |-> "none",
               before |-> {}, firstBefore |-> {}, all |-> {}, first |-> {}]
NoMerge == [called |-> FALSE, arr |-> <<>>, result |-> NoPartial]

\* new Map(): every category reads as the empty array (usedWords.get(type) ?? [])
EmptyMap == [type \in Categories |-> <<>>]

\* The state once the constructor has run: settings.nbr is read from the
\* field, settings.type is "Paragraphs".
Init ==
  /\ nbrValue \in NbrValues
  /\ settings = [nbr |-> NumberOrOne(nbrValue), type |-> "Paragraphs"]
  /\ usedWords = EmptyMap
  /\ usedDictionary = {}
  /\ run = "none"
  /\ units = <<>>
  /\ paragraph = NoParagraph
  /\ content = <<>>
  /\ footer = <<>>
  /\ lastSentence = NoSentence
  /\ drawn = NoDraw
  /\ accepted = EmptyMap
  /\ emitted = NoEmission
  /\ merged = NoMerge

(***************************************************************************)
(* setup() and what it calls.                                              *)
(***************************************************************************)
\* setup() starts: both trackers are cleared, Array.from starts on an empty array
beginSetup ==
  /\ usedWords' = EmptyMap
  /\ usedDictionary' = {}
  /\ accepted' = EmptyMap
  /\ emitted' = NoEmission
  /\ units' = <<>>
  /\ paragraph' = NoParagraph
  /\ lastSentence' = NoSentence
  /\ run' = "running"
  /\ UNCHANGED <<nbrValue, settings, content, footer, drawn, merged>>

\* init(): bindEvents(), then the first setup()
init == run = "none" /\ beginSetup

\* the form is submitted: setup() runs again
submit == run \notin {"none", "running"} /\ beginSetup

\* the field dom.nbr changes: settings.nbr = Number(value) || 1
changeNbr ==
  /\ run \notin {"none", "running"}
  /\ \E value \in NbrValues :
       /\ nbrValue' = value
       /\ settings' = [settings EXCEPT !.nbr = NumberOrOne(value)]
  /\ UNCHANGED <<usedWords, usedDictionary, run, units, paragraph, content, footer,
                 lastSentence, drawn, accepted, emitted, merged>>

\* a radio button of dom.type changes: settings.type = radio.value
changeType ==
  /\ run \notin {"none", "running"}
  /\ \E type \in IpsumTypes : settings' = [settings EXCEPT !.type = type]
  /\ UNCHANGED <<nbrValue, usedWords, usedDictionary, run, units, paragraph, content,
                 footer, lastSentence, drawn, accepted, emitted, merged>>

\* Array.from still has a unit to make
unitPending == run = "running" /\ Len(units) < ToLength(settings.nbr)

\* One generateSentence() call: the trackers change as the call changes them;
\* when it throws, the error leaves setup() and the run ends with it (the
\* arrays setup() and generateParagraph() were filling are dropped).
sentenceCall(r) ==
  /\ usedWords' = r.usedWords
  /\ usedDictionary' = r.usedDictionary
  /\ lastSentence' = [structure |-> r.structure, status |-> r.status,
                      sections |-> r.sections]
  /\ run' = IF r.status = "ok" THEN run ELSE r.status

\* getLoremIpsum("Sentences"): generateSentence() + " "
sentenceUnit ==
  /\ unitPending /\ settings.type = "Sentences"
  /\ \E r \in generateSentence(usedWords, usedDictionary) :
       /\ sentenceCall(r)
       /\ units' = IF r.status = "ok" THEN Append(units, r.text \o s_space) ELSE <<>>
  /\ UNCHANGED <<nbrValue, settings, paragraph, content, footer, callVars>>

\* getLoremIpsum("Lists"): <li> generateSentence() </li>
listUnit ==
  /\ unitPending /\ settings.type = "Lists"
  /\ \E r \in generateSentence(usedWords, usedDictionary) :
       /\ sentenceCall(r)
       /\ units' = IF r.status = "ok"
                   THEN Append(units, t_li_open \o r.text \o t_li_close) ELSE <<>>
  /\ UNCHANGED <<nbrValue, settings, paragraph, content, footer, callVars>>

\* getLoremIpsum("Words"): randomWordFromPool() + " "
wordUnit ==
  /\ unitPending /\ settings.type = "Words"
  /\ \E word \in randomWordFromPool : units' = Append(units, word \o s_space)
  /\ UNCHANGED <<nbrValue, settings, usedWords, usedDictionary, run, paragraph,
                 content, footer, lastSentence, callVars>>

\* generateParagraph() starts: sentencesNbr = this.random(2, 8)
paragraphStart ==
  /\ unitPending /\ settings.type = "Paragraphs" /\ ~paragraph.active
  /\ \E sentencesNbr \in random(2, 8) :
       paragraph' = [active |-> TRUE, sentencesNbr |-> sentencesNbr, sentences |-> <<>>]
  /\ UNCHANGED <<nbrValue, settings, usedWords, usedDictionary, run, units,
                 content, footer, lastSentence, callVars>>

\* generateParagraph(): the next generateSentence() of its Array.from
paragraphSentence ==
  /\ run = "running" /\ paragraph.active
  /\ Len(paragraph.sentences) < paragraph.sentencesNbr
  /\ \E r \in generateSentence(usedWords, usedDictionary) :
       /\ sentenceCall(r)
       /\ paragraph' = IF r.status = "ok"
                       THEN [paragraph EXCEPT !.sentences = Append(@, r.text)]
                       ELSE NoParagraph
       /\ units' = IF r.status = "ok" THEN units ELSE <<>>
  /\ UNCHANGED <<nbrValue, settings, content, footer, callVars>>

\* generateParagraph() returns <p> sentences.join(" ") </p>
paragraphEnd ==
  /\ run = "running" /\ paragraph.active
  /\ Len(paragraph.sentences) = paragraph.sentencesNbr
  /\ units' = Append(units, t_p_open \o join(paragraph.sentences, s_space) \o t_p_close)
  /\ paragraph' = NoParagraph
  /\ UNCHANGED <<nbrValue, settings, usedWords, usedDictionary, run, content, footer,
                 lastSentence, callVars>>

\* what updateResume(text) writes into the footer: the phrase of
\* settings.type with settings.nbr, the count of words (not in Words mode)
\* and the count of letters
updateResume(text) ==
  [type |-> settings.type, nbr |-> settings.nbr,
   words |-> IF settings.type # "Words" THEN <<spaceRuns(text, 1) + 1>> ELSE <<>>,
   letters |-> letters(text, 1)]

\* setup() ends: the units are joined, the ligatures fixed, the page written
finishSetup ==
  /\ run = "running" /\ ~paragraph.active
  /\ Len(units) >= ToLength(settings.nbr)
  /\ LET fixed == fixLigatures(join(units, <<>>))
     IN /\ footer' = updateResume(fixed)
        /\ content' = t_article_open \o fixed \o t_article_close
  /\ run' = "done"
  /\ UNCHANGED <<nbrValue, settings, usedWords, usedDictionary, units, paragraph,
                 lastSentence, callVars>>

Next ==
  \/ init
  \/ submit
  \/ changeNbr
  \/ changeType
  \/ sentenceUnit
  \/ listUnit
  \/ wordUnit
  \/ paragraphStart
  \/ paragraphSentence
  \/ paragraphEnd
  \/ finishSetup

Spec == Init /\ [][Next]_vars

(***************************************************************************)
(* The functions called on their own: any sequence of getRandomWord calls, *)
(* of getRandomNoRepeat calls, of mergePartials calls, inside one run and  *)
(* across runs.                                                            *)
(***************************************************************************)
\* the state setup() is in once it has cleared the trackers
RunningSetup ==
  /\ nbrValue = v_1
  /\ settings = [nbr |-> NumberOrOne(nbrValue), type |-> "Paragraphs"]
  /\ usedWords = EmptyMap
  /\ usedDictionary = {}
  /\ run = "running"
  /\ units = <<>>
  /\ paragraph = NoParagraph
  /\ content = <<>>
  /\ footer = <<>>
  /\ lastSentence = NoSentence
  /\ drawn = NoDraw
  /\ accepted = EmptyMap
  /\ emitted = NoEmission

Running == RunningSetup /\ merged = NoMerge

\* the last n elements of s
LastN(s, n) == IF Len(s) > n THEN SubSeq(s, Len(s) - n + 1, Len(s)) ELSE s

\* getRandomWord(type) is called; a RangeError ends the run
drawWord ==
  /\ run = "running"
  /\ \E type \in Categories : \E r \in getRandomWord(type, usedWords) :
       /\ usedWords' = r.usedWords
       /\ drawn' = [type |-> type, status |-> r.status, index |-> r.index,
                    value |-> r.value]
       /\ accepted' = IF r.status = "ok"
                      THEN [accepted EXCEPT ![type] = LastN(Append(@, r.index), MemoryCap + 1)]
                      ELSE accepted
       /\ run' = IF r.status = "ok" THEN run ELSE r.status
  /\ UNCHANGED <<runVars, usedDictionary, emitted, merged>>

DrawNext == drawWord \/ beginSetup

DrawSpec == Running /\ [][DrawNext]_vars

\* the value pools getRandomNoRepeat is called with: those of the
\* sub-components of persons and roles
ValuePools ==
  UNION { UNION { UNION { { data[type][gender][number][category].values
                            : category \in DOMAIN data[type][gender][number] }
                          : number \in DOMAIN data[type][gender] }
                  : gender \in {"m", "f"} }
          : type \in {s_persons, s_roles} }

\* getRandomNoRepeat(arr) is called
noRepeatCall ==
  /\ run = "running"
  /\ \E arr \in ValuePools : \E r \in getRandomNoRepeat(arr, usedDictionary) :
       /\ usedDictionary' = r.usedDictionary
       /\ emitted' = [status |-> r.status, word |-> r.word, path |-> r.path,
                      before |-> emitted.all, firstBefore |-> emitted.first,
                      all |-> emitted.all \cup {r.word},
                      first |-> IF r.path = "first" THEN emitted.first \cup {r.word}
                                ELSE emitted.first]
  /\ UNCHANGED <<runVars, usedWords, run, drawn, accepted, merged>>

NoRepeatNext == noRepeatCall \/ beginSetup

NoRepeatSpec == Running /\ [][NoRepeatNext]_vars

\* the partials getPartial returns for persons and roles when it is given
\* no preset
PartialInputs ==
  { r.partial : r \in { x \in UNION { getPartial(type, [gender |-> Undefined,
                                                        number |-> Undefined], {})
                                      : type \in {s_persons, s_roles} }
                        : x.status = "ok" } }

PartialArrays == UNION { [1..n -> PartialInputs] : n \in 1..MaxPartials }

\* an array of partials is about to be merged
MergeInit ==
  /\ RunningSetup
  /\ merged \in {[called |-> FALSE, arr |-> arr, result |-> NoPartial]
                 : arr \in PartialArrays}

\* mergePartials(arr, "protagonists", data.protagonists) is called
mergeCall ==
  /\ ~merged.called
  /\ \E r \in mergePartials(merged.arr, s_protagonists, data[s_protagonists]) :
       merged' = [merged EXCEPT !.called = TRUE, !.result = r]
  /\ UNCHANGED <<runVars, usedWords, usedDictionary, run, drawn, accepted, emitted>>

MergeNext == mergeCall

MergeSpec == MergeInit /\ [][MergeNext]_vars

(***************************************************************************)
(* The claims.                                                             *)
(***************************************************************************)
\* the markup setup() wrote: dom.content.innerHTML without its <article> tags
Markup(html) == SubSeq(html, Len(t_article_open) + 1, Len(html) - Len(t_article_close))

IsCount(v) == IsInteger(v) /\ v.n >= 1

\* the markup holds exactly count top-level units of the mode, and is not empty
CountUnits(markup, madeUnits, type, count) ==
  /\ markup # <<>>
  /\ markup = fixLigatures(join(madeUnits, <<>>))
  /\ Len(madeUnits) = count
  /\ type = "Paragraphs" =>
       /\ Occurrences(markup, t_p_open) = count
       /\ Occurrences(markup, t_p_close) = count
  /\ type = "Lists" =>
       /\ Occurrences(markup, t_li_open) = count
       /\ Occurrences(markup, t_li_close) = count
  /\ type = "Words" =>
       LET pieces == split(markup, " ")
       IN /\ Len(pieces) = count + 1
          /\ pieces[count + 1] = <<>>
          /\ \A i \in 1..count : pieces[i] # <<>>
  /\ type = "Sentences" =>
       \A i \in 1..count : Len(madeUnits[i]) > 1 /\ madeUnits[i][Len(madeUnits[i])] = " "

\* C1: every generation run with a count >= 1 ends by writing a non-empty
\* markup that holds exactly count units of the mode: count <p> blocks, count
\* sentences, count <li> items or count single words.
C1_EveryRunYieldsCountUnits ==
  [][ (run = "running" /\ run' # "running" /\ IsCount(settings.nbr))
      => /\ run' = "done"
         /\ CountUnits(Markup(content'), units', settings.type, settings.nbr.n) ]_vars

\* C2: for a category whose pool has at least 6 entries, no index occurs
\* twice among any 5 consecutive accepted draws of a run.
C2_NoRepeatInWindow ==
  \A type \in Categories :
    Len(data[type].list) >= 6 =>
      \A i, j \in 1..Len(accepted[type]) :
        i # j => accepted[type][i] # accepted[type][j]

\* five draws in a row were accepted on the pool of 6 words
C2_Witness ==
  /\ Len(accepted[s_verbe]) = MemoryCap + 1
  /\ drawn.type = s_verbe /\ drawn.status = "ok"

\* C3 as stated: a value longer than 3 characters that getRandomNoRepeat has
\* returned in this run is never returned again by its first draw (a repeat
\* only ever comes from the fallback redraw).
C3_NeverEmittedAgain ==
  (emitted.status = "ok" /\ emitted.path = "first" /\ Len(emitted.word) > 3)
    => emitted.word \notin emitted.before

\* C3 amended: a value that the first, dictionary-checked draw of
\* getRandomNoRepeat has returned in this run is never returned by a first
\* draw again, and it is longer than 3 characters.
C3_FirstDrawNeverRepeats ==
  (emitted.status = "ok" /\ emitted.path = "first")
    => /\ emitted.word \notin emitted.firstBefore
       /\ Len(emitted.word) > 3
       /\ emitted.first = usedDictionary

\* the first draw returns a value that only the fallback redraw had returned
\* before, after other values had been returned by first draws
C3_Witness ==
  /\ emitted.status = "ok" /\ emitted.path = "first"
  /\ emitted.word \in emitted.before
  /\ emitted.firstBefore # {}
  /\ Len(emitted.word) > 3

\* C4: mergePartials gives the shared gender when all partials have the same
\* gender and "m" otherwise, and always the number "plural".
C4_MergedGenderAndNumber ==
  merged.called =>
    LET genders == {merged.arr[i].gender : i \in 1..Len(merged.arr)}
    IN /\ merged.result.number = "plural"
       /\ merged.result.gender = IF Cardinality(genders) = 1
                                 THEN merged.arr[1].gender ELSE "m"
       /\ merged.result.type = s_protagonists

\* two partials of differing gender, the first feminine and singular, merged
C4_Witness ==
  /\ merged.called /\ Len(merged.arr) = 2
  /\ merged.arr[1].gender = "f" /\ merged.arr[2].gender = "m"
  /\ merged.arr[1].number = "single" /\ merged.arr[2].number = "single"
  /\ merged.result.gender = "m"

\* C5: a getRandomWord draw on a pool that is not empty returns a pool entry,
\* whatever was drawn before in the run.
C5_DrawOnPoolReturns ==
  (drawn.status # "none" /\ Len(data[drawn.type].list) > 0)
    => /\ drawn.status = "ok"
       /\ drawn.value \in SeqRange(data[drawn.type].list)

\* C6: a getRandomWord draw on an empty pool ends in a configuration error:
\* it returns no value, does not run into the stack overflow of an endless
\* recursion, and records no index.
C6_EmptyPoolIsAnError ==
  \A type \in Categories :
    Len(data[type].list) = 0 =>
      /\ usedWords[type] = <<>>
      /\ drawn.type = type => drawn.status \notin {"ok", "RangeError"}

\* C7: a count that is not a positive integer is corrected to 1, so the run
\* makes exactly one unit.
C7_InvalidCountMakesOneUnit ==
  [][ (run = "running" /\ run' # "running" /\ ~IsCount(Number(nbrValue)))
      => /\ settings.nbr = Num(1, 1)
         /\ Len(units') = 1 \/ run' # "done" ]_vars

\* C8: every getPartial call of a sentence returns a partial whose gender is
\* "m" or "f" and whose number is a label of its type under that gender.
C8_PartialsHaveGenderAndNumber ==
  \A i \in 1..Len(lastSentence.sections) :
    \A k \in 1..Len(lastSentence.sections[i].calls) :
      LET call == lastSentence.sections[i].calls[k]
      IN /\ call.status = "ok"
         /\ call.gender \in {"m", "f"}
         /\ call.number \in DOMAIN data[call.type][call.gender]

\* the positions of the section tokens of a structure
SectionTokens(structure) ==
  {i \in 1..Len(structure) : structure[i] # <<>> /\ Head(structure[i]) = "?"}

\* C10: in a sentence every section token that follows a "protagonists" token
\* is resolved with the gender and number of the protagonists as its preset,
\* and its partials carry them; a section token that no "protagonists" token
\* precedes is resolved with the empty context of a new sentence.
C10_AgreementFollowsProtagonists ==
  lastSentence.status # "none" =>
    LET structure == structures[lastSentence.structure]
        entryAt(i) == CHOOSE e \in SeqRange(lastSentence.sections) : e.at = i
        resolved(i) == \E e \in SeqRange(lastSentence.sections) : e.at = i /\ e.status = "ok"
        leaders(j) == {i \in SectionTokens(structure) :
                         i < j /\ Tail(structure[i]) = s_protagonists}
        leader(j) == CHOOSE i \in leaders(j) : \A h \in leaders(j) : h <= i
    IN \A j \in SectionTokens(structure) :
         IF leaders(j) = {}
         THEN \A e \in SeqRange(lastSentence.sections) :
                e.at = j => e.preset = NoProtagonist
         ELSE /\ resolved(leader(j)) /\ resolved(j)
              /\ entryAt(j).preset = [gender |-> entryAt(leader(j)).gender,
                                      number |-> entryAt(leader(j)).number]
              /\ entryAt(j).preset.gender \in {"m", "f"}
              /\ \A k \in 1..Len(entryAt(j).calls) :
                   /\ entryAt(j).calls[k].gender = entryAt(j).preset.gender
                   /\ entryAt(j).calls[k].number = entryAt(j).preset.number

\* C9: every category's memory of recent indices holds at most 4 indices,
\* all distinct, all indices of its pool, and is the last 4 accepted indices
\* in the order they were accepted.
C9_MemoryOfLastFour ==
  \A type \in Categories :
    /\ Len(usedWords[type]) <= MemoryCap
    /\ \A i, j \in 1..Len(usedWords[type]) :
         i # j => usedWords[type][i] # usedWords[type][j]
    /\ \A i \in 1..Len(usedWords[type]) :
         usedWords[type][i] \in 0..(Len(data[type].list) - 1)
    /\ usedWords[type] = LastN(accepted[type], MemoryCap)

====
